---------------------------- MODULE Spec2Model ----------------------------
(***************************************************************************)
(* Model of pam_bluetooth (src/main.c): the key=value record parser, the   *)
(* configuration loader, the trust resolver, the RSSI acquisition and the  *)
(* proximity decision engine behind pam_sm_authenticate.                   *)
(*                                                                         *)
(* Text is modelled as sequences of one-character strings.  C indices are  *)
(* 0-based: At(buf, i) is buf[i] of the C code.                            *)
(***************************************************************************)
EXTENDS Integers, Sequences, FiniteSets, TLC

(***************************************************************************)
(* Program constants                                                       *)
(***************************************************************************)
SYSCALL_MAX_BYTES_READ == 1024
MAX_ITEM_LEN == 256
MAX_DEVICES_LOOKDUP == 20

(***************************************************************************)
(* Bounds of the model                                                     *)
(***************************************************************************)
\* longest configuration file, in lines, of the loader specification
MaxLines == 3
\* longest connection list the adapter reports
MaxConn == 2
\* longest file, in lines, of the parser specification
MaxParserLines == 2

(***************************************************************************)
(* Characters and C string helpers                                         *)
(***************************************************************************)
NL == "\n"
SP == " "
EQ == "="
HASH == "#"
QUOTE == "\""
MINUS == "-"
PLUS == "+"

DigitChars == <<"0", "1", "2", "3", "4", "5", "6", "7", "8", "9">>

At(buf, i) == buf[i + 1]

Min(a, b) == IF a < b THEN a ELSE b

Abs(x) == IF x < 0 THEN -x ELSE x

\* value of a decimal digit character, -1 for any other character
DigitVal(c) ==
  IF \E d \in 1..10 : DigitChars[d] = c
  THEN (CHOOSE d \in 1..10 : DigitChars[d] = c) - 1
  ELSE -1

\* value of a hexadecimal digit character (isxdigit), -1 for any other
HexVal(c) ==
  CASE DigitVal(c) >= 0 -> DigitVal(c)
    [] c \in {"A", "a"} -> 10
    [] c \in {"B", "b"} -> 11
    [] c \in {"C", "c"} -> 12
    [] c \in {"D", "d"} -> 13
    [] c \in {"E", "e"} -> 14
    [] c \in {"F", "f"} -> 15
    [] OTHER -> -1

\* strncmp (s, lit, Len(lit)) == 0 for a NUL-terminated s without inner NULs
StrNCmpEq(s, lit) ==
  /\ Len(s) >= Len(lit)
  /\ SubSeq(s, 1, Len(lit)) = lit

\* strcmp (s, lit) == 0
StrCmpEq(s, lit) == s = lit

\* conversion of an int to int8_t as the build does it (wraps modulo 2^8)
ToInt8(x) == ((x + 128) % 256) - 128

\* atoi: skip leading blanks, an optional sign, then the leading digits
RECURSIVE AtoiDigits(_, _, _)
AtoiDigits(s, i, acc) ==
  IF i > Len(s) \/ DigitVal(s[i]) < 0
  THEN acc
  ELSE AtoiDigits(s, i + 1, acc * 10 + DigitVal(s[i]))

RECURSIVE AtoiFrom(_, _)
AtoiFrom(s, i) ==
  IF i > Len(s) THEN 0
  ELSE IF s[i] = SP THEN AtoiFrom(s, i + 1)
  ELSE IF s[i] = MINUS THEN -AtoiDigits(s, i + 1, 0)
  ELSE IF s[i] = PLUS THEN AtoiDigits(s, i + 1, 0)
  ELSE AtoiDigits(s, i, 0)

atoi(s) == AtoiFrom(s, 1)

(***************************************************************************)
(* parse_next_kv                                                           *)
(***************************************************************************)
\* while (*pos < read_res && fbuffer[*pos] == c) (*pos)++;
RECURSIVE SkipChar(_, _, _, _)
SkipChar(fbuffer, read_res, pos, c) ==
  IF pos < read_res /\ At(fbuffer, pos) = c
  THEN SkipChar(fbuffer, read_res, pos + 1, c)
  ELSE pos

\* while (*pos < read_res && fbuffer[*pos] != '\n') (*pos)++;
RECURSIVE SkipToNewline(_, _, _)
SkipToNewline(fbuffer, read_res, pos) ==
  IF pos < read_res /\ At(fbuffer, pos) # NL
  THEN SkipToNewline(fbuffer, read_res, pos + 1)
  ELSE pos

\* the key loop: the position at which it stops, having stored n bytes
\* before pos. The loop goes on at p while p is below read_res, fewer than
\* MAX_ITEM_LEN bytes are stored and the byte is none of '=', '\n', ' ';
\* it stops at the first position where it does not go on.
KeyEnd(fbuffer, read_res, pos, n) ==
  LET GoesOn(p) == /\ p < read_res
                   /\ n + (p - pos) < MAX_ITEM_LEN
                   /\ At(fbuffer, p) \notin {EQ, NL, SP}
      stops == {p \in pos..(IF read_res > pos THEN read_res ELSE pos) :
                  ~GoesOn(p)}
  IN  CHOOSE p \in stops : \A q \in stops : p <= q

\* the value loop: the position at which it stops, having stored n bytes
RECURSIVE ValueEnd(_, _, _, _)
ValueEnd(fbuffer, read_res, pos, n) ==
  IF pos < read_res /\ n < MAX_ITEM_LEN /\ At(fbuffer, pos) # NL
  THEN ValueEnd(fbuffer, read_res, pos + 1, n + 1)
  ELSE pos

\* while (n > 0 && value[n - 1] == ' ') value[--n] = '\0';
RECURSIVE TrimTrailingSpaces(_)
TrimTrailingSpaces(value) ==
  IF Len(value) > 0 /\ value[Len(value)] = SP
  THEN TrimTrailingSpaces(SubSeq(value, 1, Len(value) - 1))
  ELSE value

\* StripQuotes that leaves the quotes in place
StripQuotes_Kept(value) == value

\* one leading and one trailing double quote are removed
StripQuotes(value) ==
  IF Len(value) >= 2 /\ value[1] = QUOTE /\ value[Len(value)] = QUOTE
  THEN SubSeq(value, 2, Len(value) - 1)
  ELSE value

\* what a call returns and leaves in its out parameters
KvResult(res, pos, line, key, value, oob_read, oob_write) ==
  [res |-> res, pos |-> pos, line |-> line, key |-> key, value |-> value,
   oob_read |-> oob_read, oob_write |-> oob_write]

\* ParseRecord that returns a record and leaves the cursor where it was
ParseRecord_CursorKept(fbuffer, read_res, pos, line, stray) ==
  KvResult(1, pos, line,
           SubSeq(fbuffer, pos + 1, KeyEnd(fbuffer, read_res, pos, 0)),
           <<>>, FALSE, FALSE)

\* the part of the loop body from the "// key" comment to "return 1".
\* stray is the byte that fbuffer[*pos] yields when *pos is not below
\* read_res: the buffer holds no data of the file there.
ParseRecord(fbuffer, read_res, pos, line, stray) ==
  LET kend == KeyEnd(fbuffer, read_res, pos, 0)
      key == SubSeq(fbuffer, pos + 1, kend)
      p1 == SkipChar(fbuffer, read_res, kend, SP)
      sep == IF p1 < read_res THEN At(fbuffer, p1) ELSE stray
      p2 == SkipChar(fbuffer, read_res, p1 + 1, SP)
      vend == ValueEnd(fbuffer, read_res, p2, 0)
      raw == IF p2 < vend THEN SubSeq(fbuffer, p2 + 1, vend) ELSE <<>>
      value == StripQuotes(TrimTrailingSpaces(raw))
      kfull == Len(key) = MAX_ITEM_LEN
  IN  IF sep # EQ
      THEN KvResult(-1, p1, line, key, <<>>, p1 >= read_res, kfull)
      ELSE KvResult(1, vend + 1, line, key, value, p1 >= read_res,
                    kfull \/ Len(raw) = MAX_ITEM_LEN)

\* Returns 1 if key-value pair found, 0 if end of buffer, -1 on error
RECURSIVE parse_next_kv(_, _, _, _, _)
parse_next_kv(fbuffer, read_res, pos, line, stray) ==
  IF ~(pos < read_res)
  THEN KvResult(0, pos, line, <<>>, <<>>, FALSE, FALSE)
  ELSE IF At(fbuffer, pos) = SP
  THEN parse_next_kv(fbuffer, read_res,
                     SkipChar(fbuffer, read_res, pos + 1, SP), line, stray)
  ELSE IF At(fbuffer, pos) = NL
  THEN LET p == SkipChar(fbuffer, read_res, pos + 1, NL)
       IN  parse_next_kv(fbuffer, read_res, p, line + (p - (pos + 1)), stray)
  ELSE IF At(fbuffer, pos) = HASH
  THEN LET p == SkipToNewline(fbuffer, read_res, pos + 1)
           q == IF p < read_res THEN p + 1 ELSE p
       IN  parse_next_kv(fbuffer, read_res, q, line + 1, stray)
  ELSE ParseRecord(fbuffer, read_res, pos, line, stray)


(***************************************************************************)
(* Text of the files and arguments the module is run with                  *)
(***************************************************************************)
KEY_DEVICE == <<"d", "e", "v", "i", "c", "e">>
KEY_REQUEST_UPDATE == <<"r", "e", "q", "u", "e", "s", "t", "_", "u", "p", "d", "a", "t", "e">>
KEY_CHECK_TRUSTED == <<"c", "h", "e", "c", "k", "_", "t", "r", "u", "s", "t", "e", "d">>
KEY_MIN_STRENGTH == <<"m", "i", "n", "_", "s", "t", "r", "e", "n", "g", "t", "h">>
KEY_TRUSTED == <<"T", "r", "u", "s", "t", "e", "d">>
VAL_TRUE == <<"t", "r", "u", "e">>
ALLOW_WITH_PASSWORD == "allow_with_password"

\* hardware addresses in colon-hex form, and a text that is not one
AddrA == <<"A", "A", ":", "B", "B", ":", "C", "C", ":", "D", "D", ":", "E", "E", ":", "F", "F">>
AddrB == <<"1", "1", ":", "2", "2", ":", "3", "3", ":", "4", "4", ":", "5", "5", ":", "6", "6">>
NotAnAddr == <<"Z", "Z">>
CommentLine == <<"#", " ", "n", "o", "t", "e">>
NoEqualsLine == <<"g", "a", "r", "b", "a", "g", "e">>

\* decimal text of a natural number
RECURSIVE Digits(_)
Digits(n) ==
  IF n < 10 THEN <<DigitChars[n + 1]>>
  ELSE Digits(n \div 10) \o <<DigitChars[(n % 10) + 1]>>

\* a record line "key=value" and its spaced form "key = value"
Line(key, value) == key \o <<EQ>> \o value
SpacedLine(key, value) == key \o <<SP, EQ, SP>> \o value \o <<SP>>

\* the ways a threshold of magnitude v is written in a min_strength line
Forms == {"plain", "negative", "quoted"}
StrengthText(v, form) ==
  CASE form = "plain" -> Digits(v)
    [] form = "negative" -> <<MINUS>> \o Digits(v)
    [] form = "quoted" -> <<QUOTE>> \o Digits(v) \o <<QUOTE>>
StrengthLine(v, form) == Line(KEY_MIN_STRENGTH, StrengthText(v, form))

\* the bytes of a file: its lines, each but possibly the last ended by '\n'
RECURSIVE JoinLines(_, _)
JoinLines(lines, eofNewline) ==
  IF lines = <<>> THEN <<>>
  ELSE IF Len(lines) = 1
  THEN Head(lines) \o (IF eofNewline THEN <<NL>> ELSE <<>>)
  ELSE Head(lines) \o <<NL>> \o JoinLines(Tail(lines), eofNewline)

\* all sequences over S of length at most n
SeqUpTo(S, n) == UNION {[1..k -> S] : k \in 0..n}


(***************************************************************************)
(* Hardware addresses: bachk and str2ba of the Bluetooth library           *)
(***************************************************************************)
ZeroBa == <<0, 0, 0, 0, 0, 0>>

\* bachk: 17 characters, "XX:XX:XX:XX:XX:XX" with hexadecimal digits
bachk(str) ==
  /\ Len(str) = 17
  /\ \A i \in 1..17 :
       IF i % 3 = 0 THEN str[i] = ":" ELSE HexVal(str[i]) >= 0

\* str2ba writes into the bdaddr_t it is given: on a malformed text (bachk)
\* the address is zeroed and -1 returned, else the six bytes are stored
str2ba(str) ==
  IF ~bachk(str)
  THEN [ret |-> -1, ba |-> ZeroBa]
  ELSE [ret |-> 0,
        ba |-> [i \in 1..6 |->
                  16 * HexVal(str[3 * (6 - i) + 1]) + HexVal(str[3 * (6 - i) + 2])]]

\* strncpy (device_str, value, sizeof (device_str) - 1) into a zeroed buffer
DeviceStr(value) == SubSeq(value, 1, Min(Len(value), 17))

BaA == str2ba(AddrA).ba
BaB == str2ba(AddrB).ba

(***************************************************************************)
(* read_config: the dispatch on one record                                 *)
(***************************************************************************)
\* bt_config_t before read_config has stored anything in it; no field is
\* read by the program before read_config returns 0
NoConfig ==
  [device_addr |-> <<>>, request_update |-> 0, check_trusted |-> 0,
   min_strength |-> 0]

\* int8_t strength = -abs (atoi (value));
Strength(value) == ToInt8(-Abs(atoi(value)))

\* the locals the loop body changes
Loaded(config, found_device, found_strength) ==
  [config |-> config, found_device |-> found_device,
   found_strength |-> found_strength]

\* the body of the while loop of read_config for one record
ApplyRecord(config, found_device, found_strength, key, value) ==
  IF StrNCmpEq(key, KEY_DEVICE)
  THEN LET r == str2ba(DeviceStr(value))
       IN  Loaded([config EXCEPT !.device_addr = r.ba],
                  IF r.ret # 0 THEN found_device ELSE 1, found_strength)
  ELSE IF StrNCmpEq(key, KEY_REQUEST_UPDATE)
  THEN Loaded([config EXCEPT !.request_update = Abs(atoi(value))],
              found_device, found_strength)
  ELSE IF StrNCmpEq(key, KEY_CHECK_TRUSTED)
  THEN Loaded([config EXCEPT !.check_trusted = Abs(atoi(value))],
              found_device, found_strength)
  ELSE IF StrNCmpEq(key, KEY_MIN_STRENGTH)
  THEN IF Strength(value) = 0
       THEN Loaded(config, found_device, found_strength)
       ELSE Loaded([config EXCEPT !.min_strength = Strength(value)],
                   found_device, 1)
  ELSE Loaded(config, found_device, found_strength)

\* ReadConfigResult without the check of found_strength
ReadConfigResult_DeviceOnly(found_device, found_strength) ==
  IF found_device = 0 THEN -1
  ELSE 0

\* the checks after the loop: the value read_config returns
ReadConfigResult(found_device, found_strength) ==
  IF found_device = 0 THEN -1
  ELSE IF found_strength = 0 THEN -1
  ELSE 0

(***************************************************************************)
(* is_device_trusted                                                       *)
(***************************************************************************)
\* the while loop over the records of the info file and the check after it
RECURSIVE TrustScan(_, _, _, _, _)
TrustScan(fbuffer, read_res, pos, line, stray) ==
  LET r == parse_next_kv(fbuffer, read_res, pos, line, stray)
  IN  IF r.res > 0
      THEN IF StrNCmpEq(r.key, KEY_TRUSTED)
           THEN IF StrNCmpEq(r.value, VAL_TRUE) THEN 1 ELSE 0
           ELSE TrustScan(fbuffer, read_res, r.pos, r.line, stray)
      ELSE IF r.res < 0 THEN -1
      ELSE 0

\* Returns 1 if device is trusted, 0 if not trusted or file doesn't exist,
\* -1 on error
is_device_trusted(uid, file, mallocOk, stray) ==
  LET text == JoinLines(file.lines, file.eofNewline)
      read_res == IF file.status = "unreadable" THEN -1
                  ELSE Min(Len(text), SYSCALL_MAX_BYTES_READ)
  IN  IF uid # 1 THEN 0
      ELSE IF file.status = "missing" THEN 0
      ELSE IF ~mallocOk THEN -1
      ELSE IF read_res <= 0 THEN 0
      ELSE TrustScan(text, read_res, 0, 0, stray)

(***************************************************************************)
(* Signal acquisition and the decisions of the engine                      *)
(***************************************************************************)
\* dev_get_rssi: -1 when the adapter cannot be opened or the read fails
dev_get_rssi(out) ==
  IF out.fail = "open" THEN -1
  ELSE IF out.fail = "read" THEN -1
  ELSE out.rssi

\* get_fresh_rssi: 0 when the request fails or reports a status
get_fresh_rssi(out) ==
  IF out.fail = "send" THEN 0
  ELSE IF out.fail = "status" THEN 0
  ELSE out.rssi

\* the rssi of check_connected_device after the fallback to cached values
AcquireRssi(request_update, first, second) ==
  LET r == IF request_update # 0 THEN get_fresh_rssi(first)
           ELSE dev_get_rssi(first)
  IN  IF r # 0 THEN r ELSE dev_get_rssi(second)

\* ConnVerdict with the threshold itself treated as too weak
ConnVerdict_Strict(rssi, min_strength) ==
  IF rssi = 0 THEN 0
  ELSE IF rssi > min_strength THEN 1
  ELSE -1

\* ConnVerdict with a too weak signal treated as inconclusive
ConnVerdict_WeakInconclusive(rssi, min_strength) ==
  IF rssi = 0 THEN 0
  ELSE IF rssi >= min_strength THEN 1
  ELSE 0

\* the if / else if / else on rssi of check_connected_device
ConnVerdict(rssi, min_strength) ==
  IF rssi = 0 THEN 0
  ELSE IF rssi >= min_strength THEN 1
  ELSE -1

\* ProbeVerdict with a failed RSSI read treated as out of range
ProbeVerdict_NoRssiDenies(nameOk, rssiOk, rssi, min_strength) ==
  IF ~nameOk THEN FALSE
  ELSE IF rssiOk THEN rssi >= ToInt8(min_strength)
  ELSE FALSE

\* check_paired_device_proximity
ProbeVerdict(nameOk, rssiOk, rssi, min_strength) ==
  IF ~nameOk THEN FALSE
  ELSE IF rssiOk THEN rssi >= ToInt8(min_strength)
  ELSE TRUE

\* TrustDenies with the not-trusted result let through
TrustDenies_OnlyErrors(trust_result) ==
  IF trust_result < 0 THEN TRUE
  ELSE FALSE

\* check_paired_device: does the trust result end the check with false?
TrustDenies(trust_result) ==
  IF trust_result < 0 THEN TRUE
  ELSE IF trust_result = 0 THEN TRUE
  ELSE FALSE

\* RejectPassword with the flag test inverted
RejectPassword_Inverted(has_password, allow) == has_password /\ allow

\* has_password && !allow_with_password
RejectPassword(has_password, allow) == has_password /\ ~allow

\* the value pam_sm_authenticate returns for a result of the engine
AuthResult(granted) == IF granted THEN "PAM_SUCCESS" ELSE "PAM_AUTH_ERR"

\* close_fd that leaves the descriptor open
close_fd_Skipped(open, fd) == open

\* close_fd, run by AUTO_CLOSE when the scope of the descriptor is left:
\* the descriptor, if it was opened, is closed
close_fd(open, fd) == open \ {fd}

\* the descriptors open after a call of dev_get_rssi with the outcome
FdsAfterDevGetRssi(open, out) ==
  close_fd(IF out.fail = "open" THEN open ELSE open \cup {"rssi_sock"},
           "rssi_sock")

\* the descriptors open after the RSSI reads of check_connected_device
FdsAfterAcquire(open, request_update, first, second) ==
  LET o1 == IF request_update # 0 THEN open
            ELSE FdsAfterDevGetRssi(open, first)
      r1 == IF request_update # 0 THEN get_fresh_rssi(first)
            ELSE dev_get_rssi(first)
  IN  IF r1 # 0 THEN o1 ELSE FdsAfterDevGetRssi(o1, second)

\* the descriptors open after a call of is_device_trusted
FdsAfterTrust(open, uid, file) ==
  IF uid # 1 THEN open
  ELSE close_fd(IF file.status = "missing" THEN open
                ELSE open \cup {"info_file"},
                "info_file")

\* the loop over argv
AllowWithPassword(args) ==
  IF \E i \in 1..Len(args) : StrCmpEq(args[i], ALLOW_WITH_PASSWORD)
  THEN 1 ELSE 0


(***************************************************************************)
(* The environment one authentication attempt runs in                      *)
(***************************************************************************)
File(status, lines, eofNewline) ==
  [status |-> status, lines |-> lines, eofNewline |-> eofNewline]

TextFile(lines) == File("ok", lines, TRUE)

DeviceLine == Line(KEY_DEVICE, AddrA)
ThresholdLine == SpacedLine(KEY_MIN_STRENGTH, <<MINUS>> \o Digits(70))
TrustedLine == Line(KEY_CHECK_TRUSTED, Digits(1))
UpdateLine == Line(KEY_REQUEST_UPDATE, Digits(1))

\* the configuration files of the attempts of Spec
AttemptFiles ==
  { TextFile(<<CommentLine, DeviceLine, ThresholdLine>>),
    TextFile(<<DeviceLine, ThresholdLine, TrustedLine>>),
    TextFile(<<DeviceLine, ThresholdLine, UpdateLine>>),
    TextFile(<<UpdateLine, DeviceLine, StrengthLine(129, "plain")>>),
    TextFile(<<DeviceLine>>),
    TextFile(<<ThresholdLine>>),
    TextFile(<<>>),
    File("missing", <<>>, TRUE),
    File("unreadable", <<DeviceLine, ThresholdLine>>, TRUE) }

\* the magnitudes written in min_strength lines of the loader specification
Magnitudes == {0, 5, 128, 129}

WellFormedDeviceLines == {Line(KEY_DEVICE, AddrA)}
MalformedDeviceLines == {Line(KEY_DEVICE, NotAnAddr)}
StrengthLines == {StrengthLine(v, f) : v \in Magnitudes, f \in Forms}
OtherLines == {CommentLine, NoEqualsLine}

LoaderLines ==
  WellFormedDeviceLines \cup MalformedDeviceLines \cup StrengthLines
    \cup OtherLines

\* the configuration files of the loader specification
LoaderFiles ==
  {File("ok", ls, nl) : ls \in SeqUpTo(LoaderLines, MaxLines), nl \in BOOLEAN}

\* the pairing-status files
InfoFiles ==
  { TextFile(<<Line(KEY_TRUSTED, VAL_TRUE)>>),
    TextFile(<<Line(KEY_TRUSTED, <<"f", "a", "l", "s", "e">>)>>),
    TextFile(<<Line(KEY_TRUSTED, VAL_TRUE \o <<"l", "y">>)>>),
    TextFile(<<Line(KEY_TRUSTED \o <<"X">>, VAL_TRUE)>>),
    TextFile(<<CommentLine, SpacedLine(<<"N", "a", "m", "e">>, <<"p">>),
               SpacedLine(KEY_TRUSTED, VAL_TRUE)>>),
    TextFile(<<Line(<<"N", "a", "m", "e">>, <<"p">>)>>),
    TextFile(<<NoEqualsLine, Line(KEY_TRUSTED, VAL_TRUE)>>),
    File("ok", <<KEY_TRUSTED>>, FALSE),
    TextFile(<<>>),
    File("missing", <<>>, TRUE),
    File("unreadable", <<>>, TRUE) }

NoFile == File("unopened", <<>>, TRUE)

\* n times the character c
Repeat(c, n) == [i \in 1..n |-> c]

\* a key of one byte more than the key buffer holds
LongKey == Repeat("k", MAX_ITEM_LEN + 1)

\* a line as written: lead spaces, the key, pre spaces, '=', post spaces,
\* the value text, trail spaces
Written(lead, k, pre, post, v, trail) ==
  Repeat(SP, lead) \o k \o Repeat(SP, pre) \o <<EQ>> \o Repeat(SP, post)
    \o v \o Repeat(SP, trail)

\* a pair as a reader of the line sees it
Pair(k, v) == [key |-> k, value |-> v]

\* lines within the grammar of parse_next_kv, each with the pairs a reader
\* of the line sees in it: blank, spaces only, comments, a plain record, a
\* record with spaces around the key, '=' and the value, quoted values with
\* internal spaces, a doubly quoted value, an empty value
WellFormedEntries ==
  { [text |-> <<>>, pairs |-> <<>>],
    [text |-> Repeat(SP, 2), pairs |-> <<>>],
    [text |-> CommentLine, pairs |-> <<>>],
    [text |-> <<SP, HASH, "a", EQ, "b">>, pairs |-> <<>>],
    [text |-> Written(0, <<"a">>, 0, 0, <<"b">>, 0),
     pairs |-> <<Pair(<<"a">>, <<"b">>)>>],
    [text |-> Written(2, <<"k", "y">>, 1, 1, <<"v", SP, "w">>, 2),
     pairs |-> <<Pair(<<"k", "y">>, <<"v", SP, "w">>)>>],
    [text |-> Written(0, <<"q">>, 1, 1, <<QUOTE, "a", SP, "b", SP, QUOTE>>, 1),
     pairs |-> <<Pair(<<"q">>, <<"a", SP, "b", SP>>)>>],
    [text |-> Written(0, <<"d">>, 0, 0,
                      <<QUOTE, QUOTE, "x", QUOTE, QUOTE>>, 0),
     pairs |-> <<Pair(<<"d">>, <<QUOTE, "x", QUOTE>>)>>],
    [text |-> Written(0, <<"e">>, 0, 0, <<>>, 0),
     pairs |-> <<Pair(<<"e">>, <<>>)>>] }

WellFormedTexts == {e.text : e \in WellFormedEntries}

\* a record whose key is longer than the key buffer
LongKeyLine == Written(0, LongKey, 0, 0, <<"v">>, 0)

ParserLines == WellFormedTexts \cup {LongKeyLine, NoEqualsLine}

\* the files of the parser specification
ParserFiles ==
  {File("ok", ls, nl) : ls \in SeqUpTo(ParserLines, MaxParserLines),
                        nl \in BOOLEAN}

\* what fbuffer[read_res] can hold
StrayBytes == {EQ, "x"}

Uids == {0, 1, 1000}

Argvs ==
  {<<>>, <<ALLOW_WITH_PASSWORD>>, <<"debug">>, <<"debug", ALLOW_WITH_PASSWORD>>}

\* what pam_get_authtok answers: its return value and the password
Authtoks ==
  { [ret |-> "PAM_SUCCESS", null |-> FALSE, text |-> <<"s", "3">>],
    [ret |-> "PAM_SUCCESS", null |-> FALSE, text |-> <<>>],
    [ret |-> "PAM_SUCCESS", null |-> TRUE, text |-> <<>>],
    [ret |-> "PAM_AUTHTOK_ERR", null |-> TRUE, text |-> <<>>],
    [ret |-> "PAM_AUTH_ERR", null |-> TRUE, text |-> <<>>] }

\* RSSI values a read reports (int8_t, dBm)
RssiValues == {-90, -70, -60, -1, 0, 4}

CachedOutcomes ==
  {[fail |-> f, rssi |-> 0] : f \in {"open", "read"}}
    \cup {[fail |-> "none", rssi |-> r] : r \in RssiValues}

FreshOutcomes ==
  {[fail |-> f, rssi |-> 0] : f \in {"send", "status"}}
    \cup {[fail |-> "none", rssi |-> r] : r \in RssiValues}

ConnAddrs == {BaA, BaB}

\* the connection lists HCIGETCONNLIST fills in
ConnLists ==
  UNION {{[i \in 1..k |-> [bdaddr |-> f[i], handle |-> i]] :
            f \in [1..k -> ConnAddrs]} :
         k \in 0..Min(MaxConn, MAX_DEVICES_LOOKDUP)}

(***************************************************************************)
(* State                                                                   *)
(***************************************************************************)
VARIABLES
  argv,                 \* the module arguments
  cfgFile,              \* /etc/pam_bluetooth.conf
  authtok,              \* the answer of pam_get_authtok
  uid,                  \* getuid()
  pc,                   \* position in pam_sm_authenticate
  retval,               \* the value pam_sm_authenticate returned
  allow_with_password,
  fbuffer, read_res, pos, line, parse_result,
  key, value,           \* as left by the last parse_next_kv
  oob,                  \* did a parse_next_kv index past its buffers?
  records,              \* what the calls of parse_next_kv in read_config
                        \* returned as records: key, value, line
  found_device, found_strength,
  config,
  infoFile,             \* the pairing-status file at the path of the device
  conn_list,            \* the connection list of check_connected_device
  dev_found,            \* is the configured device in conn_list?
  rssi,                 \* rssi of check_connected_device
  conn_is,
  trust_result,
  bt_result,            \* what check_bluetooth_device returned
  calls,                \* the device and trust operations performed, in order
  fds,                  \* open descriptors
  heap                  \* live allocations

inputVars == <<argv, cfgFile, authtok, uid>>
loaderVars ==
  <<fbuffer, read_res, pos, line, parse_result, key, value, oob, records,
    found_device, found_strength, config>>
engineVars ==
  <<infoFile, conn_list, dev_found, rssi, conn_is, trust_result, bt_result,
    calls>>
vars ==
  <<inputVars, pc, retval, allow_with_password, loaderVars, engineVars,
    fds, heap>>

InitWith(files, args, toks, uids) ==
  /\ argv \in args
  /\ cfgFile \in files
  /\ authtok \in toks
  /\ uid \in uids
  /\ pc = "start"
  /\ retval = "none"
  /\ allow_with_password = 0
  /\ fbuffer = <<>>
  /\ read_res = 0
  /\ pos = 0
  /\ line = 0
  /\ parse_result = 0
  /\ key = <<>>
  /\ value = <<>>
  /\ oob = [read |-> FALSE, write |-> FALSE]
  /\ records = <<>>
  /\ found_device = 0
  /\ found_strength = 0
  /\ config = NoConfig
  /\ infoFile = NoFile
  /\ conn_list = <<>>
  /\ dev_found = FALSE
  /\ rssi = 0
  /\ conn_is = 0
  /\ trust_result = 0
  /\ bt_result = "none"
  /\ calls = <<>>
  /\ fds = {}
  /\ heap = {}

Init == InitWith(AttemptFiles, Argvs, Authtoks, Uids)

\* pam_sm_authenticate returns v
Return(v) ==
  /\ pc' = "done"
  /\ retval' = v

Op(name, ok, val) == [op |-> name, ok |-> ok, val |-> val]


(***************************************************************************)
(* pam_sm_authenticate, step by step                                       *)
(***************************************************************************)
\* the loop over argv
PamStart ==
  /\ pc = "start"
  /\ allow_with_password' = AllowWithPassword(argv)
  /\ pc' = "read_config"
  /\ UNCHANGED <<inputVars, retval, loaderVars, engineVars, fds, heap>>

\* read_config up to its while loop: open, malloc, read
ReadConfigOpen ==
  /\ pc = "read_config"
  /\ \E mallocOk \in BOOLEAN :
       LET text == JoinLines(cfgFile.lines, cfgFile.eofNewline)
           n == IF cfgFile.status = "unreadable" THEN -1
                ELSE Min(Len(text), SYSCALL_MAX_BYTES_READ)
       IN  IF cfgFile.status = "missing" \/ ~mallocOk \/ n = -1 \/ n = 0
           THEN \* return -1: the descriptor is closed, the buffer freed
                /\ Return("PAM_AUTH_ERR")
                /\ fds' = IF cfgFile.status = "missing" THEN fds
                          ELSE close_fd(fds \cup {"config_file"},
                                        "config_file")
                /\ UNCHANGED <<loaderVars, heap>>
           ELSE /\ fbuffer' = SubSeq(text, 1, n)
                /\ read_res' = n
                /\ config' = [config EXCEPT !.request_update = 0,
                                            !.check_trusted = 0]
                /\ pos' = 0
                /\ line' = 0
                /\ fds' = fds \cup {"config_file"}
                /\ heap' = heap \cup {"fbuffer"}
                /\ pc' = "config_loop"
                /\ UNCHANGED <<retval, parse_result, key, value, oob,
                               records, found_device, found_strength>>
  /\ UNCHANGED <<inputVars, allow_with_password, engineVars>>

\* one evaluation of the while condition of read_config and, when a record
\* was parsed, of the loop body
ReadConfigNext ==
  /\ pc = "config_loop"
  /\ \E stray \in StrayBytes :
       LET r == parse_next_kv(fbuffer, read_res, pos, line, stray)
           l == ApplyRecord(config, found_device, found_strength,
                            r.key, r.value)
       IN  /\ pos' = r.pos
           /\ line' = r.line
           /\ parse_result' = r.res
           /\ oob' = [read |-> oob.read \/ r.oob_read,
                      write |-> oob.write \/ r.oob_write]
           /\ key' = IF r.res # 0 THEN r.key ELSE key
           /\ IF r.res > 0
              THEN /\ value' = r.value
                   /\ records' = Append(records,
                                        [key |-> r.key, value |-> r.value,
                                         line |-> r.line])
                   /\ config' = l.config
                   /\ found_device' = l.found_device
                   /\ found_strength' = l.found_strength
                   /\ pc' = "config_loop"
              ELSE /\ UNCHANGED <<value, records, config, found_device,
                                  found_strength>>
                   /\ pc' = "config_end"
  /\ UNCHANGED <<inputVars, retval, allow_with_password, fbuffer, read_res,
                 engineVars, fds, heap>>

\* the checks after the loop and the return of read_config
ReadConfigEnd ==
  /\ pc = "config_end"
  /\ fds' = close_fd(fds, "config_file")
  /\ heap' = heap \ {"fbuffer"}
  /\ IF ReadConfigResult(found_device, found_strength) # 0
     THEN Return("PAM_AUTH_ERR")
     ELSE /\ pc' = "authtok"
          /\ UNCHANGED retval
  /\ UNCHANGED <<inputVars, allow_with_password, loaderVars, engineVars>>

\* pam_get_authtok and the password check
GetAuthtok ==
  /\ pc = "authtok"
  /\ LET has_password == ~authtok.null /\ Len(authtok.text) > 0
     IN  IF authtok.ret # "PAM_SUCCESS"
         THEN Return(authtok.ret)
         ELSE IF RejectPassword(has_password, allow_with_password # 0)
         THEN Return("PAM_AUTH_ERR")
         ELSE /\ pc' = "check_bluetooth_device"
              /\ UNCHANGED retval
  /\ UNCHANGED <<inputVars, allow_with_password, loaderVars, engineVars,
                 fds, heap>>

\* check_bluetooth_device returns granted to pam_sm_authenticate, with the
\* descriptors of the set open when it reaches the return
EngineReturn(granted, open) ==
  /\ bt_result' = IF granted THEN "Granted" ELSE "Denied"
  /\ fds' = close_fd(open, "hci_sock")
  /\ Return(AuthResult(granted))

\* check_bluetooth_device up to the call of check_connected_device.
\* ba2str formats six bytes and does not fail: the did < 0 return is dead.
CheckBluetoothDevice ==
  /\ pc = "check_bluetooth_device"
  /\ \E route \in BOOLEAN, devba \in BOOLEAN, open \in BOOLEAN :
       IF ~route
       THEN /\ calls' = calls \o <<Op("hci_get_route", FALSE, 0)>>
            /\ EngineReturn(FALSE, fds)
       ELSE IF ~devba
       THEN /\ calls' = calls \o <<Op("hci_get_route", TRUE, 0),
                                   Op("hci_devba", FALSE, 0)>>
            /\ EngineReturn(FALSE, fds)
       ELSE IF ~open
       THEN /\ calls' = calls \o <<Op("hci_get_route", TRUE, 0),
                                   Op("hci_devba", TRUE, 0),
                                   Op("hci_open_dev", FALSE, 0)>>
            /\ EngineReturn(FALSE, fds)
       ELSE /\ calls' = calls \o <<Op("hci_get_route", TRUE, 0),
                                   Op("hci_devba", TRUE, 0),
                                   Op("hci_open_dev", TRUE, 0)>>
            /\ fds' = fds \cup {"hci_sock"}
            /\ pc' = "check_connected_device"
            /\ UNCHANGED <<retval, bt_result>>
  /\ UNCHANGED <<inputVars, allow_with_password, loaderVars, infoFile,
                 conn_list, dev_found, rssi, conn_is, trust_result, heap>>


\* the index of the first entry of the list with the address, 0 if none
FirstMatch(list, addr) ==
  IF \E i \in 1..Len(list) : list[i].bdaddr = addr
  THEN CHOOSE i \in 1..Len(list) :
         /\ list[i].bdaddr = addr
         /\ \A j \in 1..(i - 1) : list[j].bdaddr # addr
  ELSE 0

\* the calls check_connected_device makes to read the RSSI
RssiCalls(request_update, first, second) ==
  LET c1 == IF request_update # 0
            THEN Op("get_fresh_rssi", first.fail = "none",
                    get_fresh_rssi(first))
            ELSE Op("dev_get_rssi", first.fail = "none", dev_get_rssi(first))
  IN  IF c1.val # 0 THEN <<c1>>
      ELSE <<c1, Op("dev_get_rssi", second.fail = "none",
                    dev_get_rssi(second))>>

\* check_connected_device returned r to check_bluetooth_device, with the
\* descriptors of the set open
AfterConnected(r, open) ==
  /\ conn_is' = r
  /\ IF r = 0
     THEN /\ pc' = "check_paired_device"
          /\ fds' = open
          /\ UNCHANGED <<retval, bt_result>>
     ELSE EngineReturn(r = 1, open)

\* check_connected_device, and the use check_bluetooth_device makes of it
CheckConnectedDevice ==
  /\ pc = "check_connected_device"
  /\ \E mallocOk \in BOOLEAN, ioctlOk \in BOOLEAN, list \in ConnLists,
        first \in CachedOutcomes \cup FreshOutcomes,
        second \in CachedOutcomes :
       LET i == FirstMatch(list, config.device_addr)
           r == AcquireRssi(config.request_update, first, second)
       IN  IF ~mallocOk
           THEN /\ AfterConnected(-1, fds)
                /\ UNCHANGED <<conn_list, dev_found, rssi, calls, heap>>
           ELSE IF ~ioctlOk
           THEN /\ calls' = calls \o <<Op("HCIGETCONNLIST", FALSE, 0)>>
                /\ AfterConnected(0, fds)
                /\ UNCHANGED <<conn_list, dev_found, rssi, heap>>
           ELSE IF i = 0
           THEN /\ calls' = calls \o <<Op("HCIGETCONNLIST", TRUE, Len(list))>>
                /\ conn_list' = list
                /\ AfterConnected(0, fds)
                /\ UNCHANGED <<dev_found, rssi, heap>>
           ELSE /\ first \in (IF config.request_update # 0
                              THEN FreshOutcomes ELSE CachedOutcomes)
                /\ calls' = calls
                     \o <<Op("HCIGETCONNLIST", TRUE, Len(list))>>
                     \o RssiCalls(config.request_update, first, second)
                /\ conn_list' = list
                /\ dev_found' = TRUE
                /\ rssi' = r
                /\ heap' = heap \cup {"conn_list"}
                /\ AfterConnected(ConnVerdict(r, config.min_strength),
                                  FdsAfterAcquire(fds, config.request_update,
                                                  first, second))
  /\ UNCHANGED <<inputVars, allow_with_password, loaderVars, infoFile,
                 trust_result>>

\* check_paired_device up to the call of check_paired_device_proximity
CheckPairedDevice ==
  /\ pc = "check_paired_device"
  /\ IF config.check_trusted # 0
     THEN \E file \in InfoFiles, mallocOk \in BOOLEAN, stray \in StrayBytes :
            LET t == is_device_trusted(uid, file, mallocOk, stray)
                open == FdsAfterTrust(fds, uid, file)
            IN  /\ trust_result' = t
                /\ infoFile' = file
                /\ calls' = calls
                     \o (IF uid # 1 THEN <<>>
                         ELSE <<Op("open_info_file",
                                   file.status # "missing", 0)>>)
                     \o <<Op("is_device_trusted", t = 1, t)>>
                /\ IF TrustDenies(t)
                   THEN EngineReturn(FALSE, open)
                   ELSE /\ pc' = "check_paired_device_proximity"
                        /\ fds' = open
                        /\ UNCHANGED <<retval, bt_result>>
     ELSE /\ pc' = "check_paired_device_proximity"
          /\ UNCHANGED <<retval, bt_result, fds, trust_result, infoFile,
                         calls>>
  /\ UNCHANGED <<inputVars, allow_with_password, loaderVars, conn_list,
                 dev_found, rssi, conn_is, heap>>

\* check_paired_device_proximity; its result is what check_paired_device and
\* check_bluetooth_device return
CheckPairedDeviceProximity ==
  /\ pc = "check_paired_device_proximity"
  /\ \E nameOk \in BOOLEAN, rssiOk \in BOOLEAN, r \in RssiValues :
       /\ calls' = calls
            \o <<Op("hci_read_remote_name_with_clock_offset", nameOk, 0)>>
            \o (IF nameOk
                THEN <<Op("hci_read_rssi", rssiOk, IF rssiOk THEN r ELSE 0)>>
                ELSE <<>>)
       /\ EngineReturn(ProbeVerdict(nameOk, rssiOk, r, config.min_strength),
                       fds)
  /\ UNCHANGED <<inputVars, allow_with_password, loaderVars, infoFile,
                 conn_list, dev_found, rssi, conn_is, trust_result, heap>>

Next ==
  \/ PamStart
  \/ ReadConfigOpen
  \/ ReadConfigNext
  \/ ReadConfigEnd
  \/ GetAuthtok
  \/ CheckBluetoothDevice
  \/ CheckConnectedDevice
  \/ CheckPairedDevice
  \/ CheckPairedDeviceProximity

Spec == Init /\ [][Next]_vars

(***************************************************************************)
(* The loader alone, over every file of up to MaxLines lines               *)
(***************************************************************************)
InitLoader ==
  InitWith(LoaderFiles, {<<>>},
           {[ret |-> "PAM_SUCCESS", null |-> FALSE, text |-> <<>>]}, {0})

NextLoader ==
  \/ PamStart
  \/ ReadConfigOpen
  \/ ReadConfigNext
  \/ ReadConfigEnd

SpecLoader == InitLoader /\ [][NextLoader]_vars

(***************************************************************************)
(* The loader draining every file of up to MaxParserLines lines of the    *)
(* parser's grammar                                                        *)
(***************************************************************************)
InitParser ==
  InitWith(ParserFiles, {<<>>},
           {[ret |-> "PAM_SUCCESS", null |-> FALSE, text |-> <<>>]}, {0})

SpecParser == InitParser /\ [][NextLoader]_vars


(***************************************************************************)
(* Vocabulary of the properties                                            *)
(***************************************************************************)
\* the device-access operations of the log
DeviceOps ==
  {"hci_get_route", "hci_devba", "hci_open_dev", "HCIGETCONNLIST",
   "dev_get_rssi", "get_fresh_rssi",
   "hci_read_remote_name_with_clock_offset", "hci_read_rssi"}

Called(name) == \E i \in 1..Len(calls) : calls[i].op = name

\* the entry of the log for the operation (which is logged at most once)
CallOf(name) == calls[CHOOSE i \in 1..Len(calls) : calls[i].op = name]

NoDeviceAccess == \A i \in 1..Len(calls) : calls[i].op \notin DeviceOps

\* the attempt is made with a non-empty password
CredentialSupplied ==
  authtok.ret = "PAM_SUCCESS" /\ ~authtok.null /\ authtok.text # <<>>

\* allow_with_password is among the module arguments
AllowArgGiven == \E i \in 1..Len(argv) : argv[i] = "allow_with_password"

\* the RSSI reads check_connected_device made, in order
ConnRssiCalls ==
  SelectSeq(calls, LAMBDA c : c.op \in {"dev_get_rssi", "get_fresh_rssi"})

\* the fallback path of the engine was entered
FallbackTaken ==
  Called("HCIGETCONNLIST") /\ conn_is = 0 /\ pc # "check_connected_device"

ProbeCalled == Called("hci_read_remote_name_with_clock_offset")

\* a line of the file whose key begins with the given key
HasLineFor(k) ==
  \E i \in 1..Len(cfgFile.lines) : StrNCmpEq(cfgFile.lines[i], k)

\* the causes of a failed load, told from the file alone
ConfigCannotLoad ==
  \/ cfgFile.status \in {"missing", "unreadable"}
  \/ cfgFile.lines = <<>>
  \/ ~HasLineFor(KEY_DEVICE)
  \/ ~HasLineFor(KEY_MIN_STRENGTH)

\* read_config has returned -1
LoadFailed ==
  /\ pc \notin {"start", "read_config", "config_loop", "config_end"}
  /\ (read_res = 0 \/ found_device = 0 \/ found_strength = 0)

(***************************************************************************)
(* Properties                                                              *)
(***************************************************************************)
\* C1: an attempt made with a non-empty password and without the
\* allow_with_password argument never performs a device-access operation,
\* and when it ends it ends with PAM_AUTH_ERR.
C1_PasswordDeniedWithoutDeviceAccess ==
  (CredentialSupplied /\ ~AllowArgGiven) =>
    /\ NoDeviceAccess
    /\ bt_result = "none"
    /\ pc = "done" => retval = "PAM_AUTH_ERR"

\* the password check itself rejected an attempt whose configuration loaded
C1_Witness ==
  /\ pc = "done"
  /\ CredentialSupplied
  /\ ~AllowArgGiven
  /\ found_device = 1
  /\ found_strength = 1
  /\ retval = "PAM_AUTH_ERR"

\* C2: pam_sm_authenticate returns PAM_SUCCESS only when read_config
\* returned 0 and check_bluetooth_device returned true in the attempt; when
\* the load fails (missing, unreadable or empty file, no device line, no
\* min_strength line) the attempt is denied and the engine never runs.
C2_SuccessNeedsConfigAndGranted ==
  /\ retval = "PAM_SUCCESS" =>
       /\ bt_result = "Granted"
       /\ read_res > 0
       /\ found_device = 1
       /\ found_strength = 1
  /\ (ConfigCannotLoad \/ LoadFailed) =>
       /\ calls = <<>>
       /\ bt_result = "none"
       /\ pc \in {"start", "read_config", "config_loop", "config_end", "done"}
       /\ pc = "done" => retval = "PAM_AUTH_ERR"

\* an attempt succeeded
C2_Witness ==
  /\ pc = "done"
  /\ retval = "PAM_SUCCESS"
  /\ bt_result = "Granted"
  /\ ~ConfigCannotLoad

\* C3: when the configured device is in the connection list and every RSSI
\* read made for it failed, the rssi is the sentinel 0, the connection check
\* is inconclusive (0) and the engine goes on to the paired-device check.
C3_FailedReadsAreInconclusive ==
  (/\ dev_found
   /\ \A i \in 1..Len(ConnRssiCalls) : ~ConnRssiCalls[i].ok) =>
    /\ rssi = 0
    /\ conn_is = 0

\* C4: when the configured device is in the connection list and the RSSI
\* acquired for it (a value other than the sentinel 0) is below
\* min_strength, the engine returns Denied at once: neither
\* is_device_trusted nor the proximity probe is called in the attempt.
C4_WeakConnectionDeniedWithoutFallback ==
  (dev_found /\ rssi # 0 /\ rssi < config.min_strength) =>
    /\ conn_is = -1
    /\ pc = "done"
    /\ bt_result = "Denied"
    /\ retval = "PAM_AUTH_ERR"
    /\ ~Called("is_device_trusted")
    /\ ~ProbeCalled
    /\ ~Called("hci_read_rssi")

\* the connected device was too weak
C4_Witness ==
  /\ pc = "done"
  /\ dev_found
  /\ rssi = -90
  /\ config.min_strength = -70
  /\ bt_result = "Denied"

\* C5 as stated: whenever the last RSSI read for the connected device
\* succeeded with a value at or above min_strength, the engine grants.
C5_AnyValueAtThresholdGrants ==
  (/\ pc = "done"
   /\ dev_found
   /\ ConnRssiCalls[Len(ConnRssiCalls)].ok
   /\ ConnRssiCalls[Len(ConnRssiCalls)].val >= config.min_strength) =>
    bt_result = "Granted"

\* C5, amended: when the configured device is in the connection list and
\* the RSSI acquired for it is not 0 and is at or above min_strength, the
\* engine returns Granted and the attempt succeeds.
C5_NonZeroValueAtThresholdGrants ==
  (dev_found /\ rssi # 0 /\ rssi >= config.min_strength) =>
    /\ conn_is = 1
    /\ pc = "done"
    /\ bt_result = "Granted"
    /\ retval = "PAM_SUCCESS"

\* the connected device was read at exactly the threshold
C5_Witness ==
  /\ pc = "done"
  /\ dev_found
  /\ ConnRssiCalls[Len(ConnRssiCalls)].ok
  /\ rssi = -70
  /\ config.min_strength = -70
  /\ bt_result = "Granted"

\* C6: the proximity probe is called only when check_trusted is unset or
\* is_device_trusted returned 1; when is_device_trusted returned 0 or -1
\* the engine returns Denied and no probe operation is in the log.
C6_UntrustedDeniedWithoutProbe ==
  /\ (ProbeCalled \/ Called("hci_read_rssi") \/
      pc = "check_paired_device_proximity") =>
       (config.check_trusted = 0 \/
        (Called("is_device_trusted") /\ CallOf("is_device_trusted").val = 1))
  /\ (Called("is_device_trusted") /\ CallOf("is_device_trusted").val # 1) =>
       /\ config.check_trusted # 0
       /\ FallbackTaken
       /\ pc = "done"
       /\ bt_result = "Denied"
       /\ ~ProbeCalled
       /\ ~Called("hci_read_rssi")

\* the trust check denied an attempt on the fallback path
C6_Witness ==
  /\ pc = "done"
  /\ FallbackTaken
  /\ config.check_trusted # 0
  /\ Called("is_device_trusted")
  /\ CallOf("is_device_trusted").val = 0
  /\ bt_result = "Denied"

\* the verdict of the proximity probe, told from the log
ProbeSays ==
  LET name == CallOf("hci_read_remote_name_with_clock_offset")
  IN  IF ~name.ok THEN "Denied"
      ELSE IF ~CallOf("hci_read_rssi").ok THEN "Granted"
      ELSE IF CallOf("hci_read_rssi").val >= config.min_strength
      THEN "Granted"
      ELSE "Denied"

\* C7: when the engine is on the fallback path and trust is satisfied or not
\* required, the probe runs and the verdict is the probe's: Denied if the
\* name read failed, Granted if the name read succeeded and the RSSI read
\* failed, and rssi >= min_strength if both succeeded.
C7_VerdictIsProbeResult ==
  (/\ pc = "done"
   /\ FallbackTaken
   /\ \/ config.check_trusted = 0
      \/ (Called("is_device_trusted") /\ CallOf("is_device_trusted").val = 1)) =>
    /\ ProbeCalled
    /\ bt_result = ProbeSays
    /\ retval = (IF ProbeSays = "Granted" THEN "PAM_SUCCESS" ELSE "PAM_AUTH_ERR")

\* the name read succeeded, the RSSI read failed, the attempt was granted
C7_Witness ==
  /\ pc = "done"
  /\ FallbackTaken
  /\ ProbeCalled
  /\ CallOf("hci_read_remote_name_with_clock_offset").ok
  /\ Called("hci_read_rssi")
  /\ ~CallOf("hci_read_rssi").ok
  /\ bt_result = "Granted"


\* min_strength lines whose value is in the range the threshold may have
WellFormedStrengthLines ==
  {StrengthLine(v, f) : v \in Magnitudes \cap (1..128), f \in Forms}

MalformedStrengthLines == StrengthLines \ WellFormedStrengthLines

\* how many lines of the configuration file are in the set
CountIn(S) ==
  Cardinality({i \in 1..Len(cfgFile.lines) : cfgFile.lines[i] \in S})

\* read_config has read the file and returned
ConfigLoaded == pc = "authtok"
LoadReturned == read_res > 0 /\ pc \in {"authtok", "done"}

\* C8: whenever a min_strength line has set the threshold, and so after
\* every successful read_config, min_strength is in -128..-1.
C8_ThresholdStrictlyNegative ==
  found_strength = 1 => config.min_strength \in -128..-1

\* C9: a file with a device line and one min_strength line that writes the
\* magnitude v plain, negated or quoted loads with min_strength = -v when
\* v # 0, and fails to load when v = 0.
C9_NormalizationSignInvariant ==
  \A v \in Magnitudes, f \in Forms :
    (LoadReturned /\ cfgFile.lines = <<DeviceLine, StrengthLine(v, f)>>) =>
      IF v = 0
      THEN pc = "done" /\ retval = "PAM_AUTH_ERR"
      ELSE ConfigLoaded /\ config.min_strength = -v

\* C10: for a file whose lines are all records or comments, read_config
\* fails exactly when the file has no well-formed device line or no
\* well-formed min_strength line; a file with one malformed and one
\* well-formed line of a field (and a well-formed line of the other field)
\* loads, and the Config holds the value of the well-formed line.
C10_LoadFailsIffFieldMissing ==
  /\ (LoadReturned /\ CountIn({NoEqualsLine}) = 0) =>
       (pc = "done" <=>
          (CountIn(WellFormedDeviceLines) = 0 \/
           CountIn(WellFormedStrengthLines) = 0))
  /\ (/\ LoadReturned
      /\ CountIn(WellFormedDeviceLines) = 1
      /\ CountIn(MalformedDeviceLines) = 1
      /\ CountIn(WellFormedStrengthLines) = 1) =>
       (ConfigLoaded /\ config.device_addr = BaA)
  /\ \A v \in Magnitudes \cap (1..128), f \in Forms :
       (/\ LoadReturned
        /\ CountIn({StrengthLine(v, f)}) = 1
        /\ CountIn(MalformedStrengthLines) = 1
        /\ CountIn(WellFormedDeviceLines) = 1) =>
         (ConfigLoaded /\ config.min_strength = -v)


\* C11: when parse_next_kv returned an error in a load, read_config returns
\* failure, whatever records were read before the malformed line.
C11_ParseErrorFailsLoad ==
  (LoadReturned /\ parse_result < 0) =>
    (pc = "done" /\ retval = "PAM_AUTH_ERR")

\* C18: no call of parse_next_kv reads fbuffer at an index that is not
\* below read_res, or writes key or value at index MAX_ITEM_LEN.
C18_AccessesInBounds == ~oob.read /\ ~oob.write

\* C19: the connection list allocated by check_connected_device is freed
\* when the function has returned, on every return path.
C19_ConnListFreed == "conn_list" \notin heap

\* the result the records of a buffer resolve to when keys and values are
\* compared whole: 1 when the first record with the key Trusted has the
\* value true
RECURSIVE ExactTrust(_, _, _, _, _)
ExactTrust(buf, n, p, l, stray) ==
  LET r == parse_next_kv(buf, n, p, l, stray)
  IN  IF r.res > 0
      THEN IF StrCmpEq(r.key, KEY_TRUSTED)
           THEN IF StrCmpEq(r.value, VAL_TRUE) THEN 1 ELSE 0
           ELSE ExactTrust(buf, n, r.pos, r.line, stray)
      ELSE 0

\* the file has a first record with the key Trusted, and its value is true
ExactlyTrusted(file) ==
  LET text == JoinLines(file.lines, file.eofNewline)
  IN  /\ file.status = "ok"
      /\ Len(text) > 0
      /\ \E stray \in StrayBytes :
           ExactTrust(text, Min(Len(text), SYSCALL_MAX_BYTES_READ), 0, 0,
                      stray) = 1

\* is_device_trusted went past its privilege gate
GatePassed == Called("open_info_file")

\* C12: for a caller that passed the privilege gate, is_device_trusted
\* returns 1 only when the first record whose key is exactly Trusted has the
\* value exactly true.
C12_TrustedOnlyForExactTrue ==
  (Called("is_device_trusted") /\ GatePassed /\ trust_result = 1) =>
    ExactlyTrusted(infoFile)

\* C13: a caller without root privilege (uid other than 0) gets a result
\* other than Trusted with the pairing-status file never opened, and root is
\* let through the gate, so that a file holding Trusted=true is opened and
\* resolves to Trusted unless the call fails.
C13_GateFailsClosedOnNonRoot ==
  /\ (Called("is_device_trusted") /\ uid # 0) =>
       (trust_result # 1 /\ ~GatePassed)
  /\ (/\ Called("is_device_trusted")
      /\ uid = 0
      /\ infoFile = TextFile(<<Line(KEY_TRUSTED, VAL_TRUE)>>)) =>
       (GatePassed /\ trust_result # 0)

\* C17: every descriptor opened during an attempt is closed when the
\* function that opened it has returned: the per-lookup socket and the
\* pairing-status file are never open between steps, the configuration file
\* is open only inside read_config, the HCI socket only inside
\* check_bluetooth_device, and none is open when pam_sm_authenticate returns.
C17_HandlesClosedOnEveryExit ==
  /\ fds \subseteq {"config_file", "hci_sock"}
  /\ "config_file" \in fds => pc \in {"config_loop", "config_end"}
  /\ "hci_sock" \in fds =>
       pc \in {"check_connected_device", "check_paired_device",
               "check_paired_device_proximity"}
  /\ pc = "done" => fds = {}

\* an attempt returned after its engine opened the HCI socket, read an RSSI
\* through a per-lookup socket and consulted the pairing-status file
C17_Witness ==
  /\ pc = "done"
  /\ fds = {}
  /\ \E i \in DOMAIN calls : calls[i].op = "dev_get_rssi" /\ calls[i].ok
  /\ \E i \in DOMAIN calls : calls[i].op = "open_info_file" /\ calls[i].ok

\* every line of the configuration file is within the grammar
WellFormedFile ==
  /\ cfgFile.status = "ok"
  /\ \A i \in 1..Len(cfgFile.lines) : cfgFile.lines[i] \in WellFormedTexts

\* the pairs a reader sees in a line of the grammar
PairsOf(text) == (CHOOSE e \in WellFormedEntries : e.text = text).pairs

\* the pairs a reader sees in the lines, in order
RECURSIVE ExpectedPairs(_)
ExpectedPairs(lines) ==
  IF lines = <<>> THEN <<>>
  ELSE PairsOf(Head(lines)) \o ExpectedPairs(Tail(lines))

\* the 1-based numbers of the lines, from the i-th on, that hold a record
RECURSIVE RecordLines(_, _)
RecordLines(lines, i) ==
  IF i > Len(lines) THEN <<>>
  ELSE (IF PairsOf(lines[i]) # <<>> THEN <<i>> ELSE <<>>)
         \o RecordLines(lines, i + 1)

\* the pairs the calls of parse_next_kv returned so far
Got == [i \in 1..Len(records) |-> Pair(records[i].key, records[i].value)]

IsPrefix(a, b) == Len(a) <= Len(b) /\ SubSeq(b, 1, Len(a)) = a

\* the loop of read_config ran and ended
Drained == read_res > 0 /\ pc \in {"config_end", "authtok", "done"}

\* C14: draining a buffer of lines within the grammar yields exactly the
\* pairs a reader sees, in order: no call fails, the records returned during
\* the loop are the first of the expected pairs, and when the loop has ended
\* they are all of them; blank and comment lines yield nothing, spaces
\* around key, '=' and value are dropped, one pair of surrounding quotes is
\* removed and spaces inside it are kept.
C14_DrainYieldsWrittenPairs ==
  WellFormedFile =>
    /\ parse_result >= 0
    /\ IsPrefix(Got, ExpectedPairs(cfgFile.lines))
    /\ Drained => Got = ExpectedPairs(cfgFile.lines)

\* a file with a comment line and then a quoted value with internal spaces
\* and trailing spaces outside the quotes has been drained
C14_Witness ==
  /\ Drained
  /\ WellFormedFile
  /\ Len(cfgFile.lines) = 2
  /\ cfgFile.lines[1] = CommentLine
  /\ Got = <<Pair(<<"q">>, <<"a", SP, "b", SP>>)>>

\* C15: the line returned with each record is the 1-based number of the
\* line the record is written on, and the line left by a parse error is the
\* 1-based number of the line that has no '='.
C15_LineIsOneBasedLineOfRecord ==
  /\ WellFormedFile =>
       \A j \in 1..Len(records) :
         records[j].line = RecordLines(cfgFile.lines, 1)[j]
  /\ \A n \in 1..Len(cfgFile.lines) :
       (/\ cfgFile.lines[n] = NoEqualsLine
        /\ \A i \in 1..(n - 1) : cfgFile.lines[i] \in WellFormedTexts
        /\ parse_result < 0) =>
         line = n

\* C16: a record whose key is one byte longer than MAX_ITEM_LEN is returned
\* as a record with the first MAX_ITEM_LEN bytes of the key and its value,
\* and the call does not fail.
C16_LongKeyTruncated ==
  (Drained /\ cfgFile.lines = <<LongKeyLine>>) =>
    /\ parse_result >= 0
    /\ Got = <<Pair(SubSeq(LongKey, 1, MAX_ITEM_LEN), <<"v">>)>>

\* C20: a call of parse_next_kv that returns a record, the only call after
\* which the loop of read_config goes on, started with the cursor inside the
\* buffer and leaves the cursor beyond where it was; so the records returned
\* from a buffer of read_res bytes are at most read_res.
C20_DrainTerminates ==
  /\ [][(pc = "config_loop" /\ parse_result' > 0) =>
         (pc' = "config_loop" /\ pos < read_res /\ pos' > pos)]_vars
  /\ [][(pc = "config_loop" /\ parse_result' <= 0) =>
         pc' = "config_end"]_vars
  /\ [](Len(records) <= read_res)

\* the loop of read_config ended after it returned two records
C20_Witness ==
  /\ pc = "config_end"
  /\ parse_result = 0
  /\ Len(records) = 2
  /\ pos >= read_res

=============================================================================
